---- MODULE Spec2Model ----
(***************************************************************************)
(* A model of run_as_tptp_test_suite.py: the markup splitter               *)
(* (split_tptp_input), the case executor (run_test_case) and the suite     *)
(* orchestrator (run_test_suite, run_test_cases); and a model of           *)
(* naive_consent_theory.py: the Person class and is_ethical_action.        *)
(*                                                                         *)
(* A line of text is a record: what the three markup regular expressions   *)
(* see in it (mark, negated, rest).  A text (a case body, the background,  *)
(* a prover artifact) is the sequence of its lines, so that "text + line"  *)
(* is Append.                                                              *)
(***************************************************************************)
EXTENDS Integers, Sequences, FiniteSets, TLC

VARIABLES
    pc,                  \* where the process is
    exit_code,           \* the argument of sys.exit, -1 while running
    doc,                 \* the lines of the input file read so far
    in_test,
    in_non_test_matter,
    current_test_count,
    line_count,
    non_test_matter,
    test_case_names,
    test_cases,
    current_test_name,
    requested,           \* the selection as the command line gave it
    tests_to_run,        \* the selection run_test_suite was given, then what it runs
    verbosity,
    results_path,        \* what is at the results path: "absent", "dir", "file", "denied"
    dir_created,         \* os.makedirs(test_results_path) returned
    files,               \* result file name -> the lines of the file
    next_test,           \* the position of "for test_case_name in tests_to_run"
    prover,              \* the subprocesses that run, each [name, input]
    invocations,         \* every subprocess launched so far, in order
    scan_pos,            \* the position of "for line in results_file"
    result,              \* run_test_case's result
    outcomes,            \* per finished case: its name, negated, result, status
                         \* and the artifact the result was read from
    test_results,
    test_case_details_to_display,
    next_detail,         \* the position of the loop over the recorded cases
    reports,             \* the detail entries written so far
    stdout,              \* what the summary loop and the errors wrote
    people,              \* naive_consent_theory: the Person objects, by identity
    calls                \* naive_consent_theory: the method calls made so far

split_vars == <<doc, in_test, in_non_test_matter, current_test_count, line_count,
                non_test_matter, test_case_names, test_cases, current_test_name>>

suite_vars == <<requested, tests_to_run, verbosity, results_path, dir_created>>

exec_vars == <<files, next_test, prover, invocations, scan_pos, result>>

report_vars == <<outcomes, test_results, test_case_details_to_display, next_detail,
                 reports, stdout>>

tptp_vars == <<pc, exit_code, split_vars, suite_vars, exec_vars, report_vars>>

consent_vars == <<people, calls>>

vars == <<tptp_vars, consent_vars>>

-----------------------------------------------------------------------------
(* Bounds and input alphabets.                                             *)

\* Documents of up to MaxLines lines are read.
MaxLines == 4

\* The text that follows the marker token of a test-case line.
RawNames == {"", "a", "a ", "Test-2"}

\* The content of the lines that carry no markup.
PlainTexts == {"x", "y"}

CaseLine(neg, raw) == [mark |-> "case", negated |-> neg, rest |-> raw]
BeginLine == [mark |-> "begin", negated |-> FALSE, rest |-> ""]
EndLine == [mark |-> "end", negated |-> FALSE, rest |-> ""]
PlainLine(t) == [mark |-> "none", negated |-> FALSE, rest |-> t]

Lines ==
    {CaseLine(neg, raw) : neg \in BOOLEAN, raw \in RawNames}
        \cup {BeginLine, EndLine}
        \cup {PlainLine(t) : t \in PlainTexts}

-----------------------------------------------------------------------------
(* split_tptp_input: the regular expressions and the helpers of the loop.  *)

\* test_case.match(line) != None
test_case_match(line) == line.mark = "case"

\* begin_test_section.match(line) != None
begin_test_section_match(line) == line.mark = "begin"

\* end_test_section.match(line) != None
end_test_section_match(line) == line.mark = "end"

\* str.strip() on the captured names of the alphabet.
strip(s) == IF s = "a " THEN "a" ELSE s

\* "Test-%s" % current_test_count
\* A default name that counts the earlier markers only.
DefaultTestNameFromZero(count) == "Test-" \o ToString(count - 1)

\* "Test-%s" % current_test_count
DefaultTestName(count) == "Test-" \o ToString(count)

\* The name the marker resolves to: the stripped capture, or the default.
ResolveTestName(line, count) ==
    IF strip(line.rest) # "" THEN strip(line.rest) ELSE DefaultTestName(count)

\* A has_key that never finds the name.
has_key_never(cases, name) == FALSE

\* test_cases.has_key(current_test_name)
has_key(cases, name) == name \in DOMAIN cases

\* A new test case that takes the line count for its index.
NewTestCaseIndexedByLine(count, lineno, neg) ==
    [index |-> lineno, line |-> lineno, negated |-> neg, text |-> <<>>]

\* The dictionary stored under a new test name.
NewTestCase(count, lineno, neg) ==
    [index |-> count, line |-> lineno, negated |-> neg, text |-> <<>>]

\* A markup check that forgets "disposable_line = True" at the end marker.
disposable_line_begin_only(line) ==
    ~test_case_match(line) /\ begin_test_section_match(line)

\* disposable_line after the markup check of a line.
disposable_line(line) ==
    /\ ~test_case_match(line)
    /\ begin_test_section_match(line) \/ end_test_section_match(line)

\* in_test after the markup check of a line.
InTestAfter(line, flag) ==
    IF test_case_match(line) THEN TRUE
    ELSE IF begin_test_section_match(line) THEN flag
    ELSE IF end_test_section_match(line) THEN FALSE
    ELSE flag

\* A markup check whose begin marker leaves in_non_test_matter as it is.
InNonTestMatterAfterBeginIgnored(line, flag) ==
    IF test_case_match(line) THEN FALSE
    ELSE IF end_test_section_match(line) THEN TRUE
    ELSE flag

\* A markup check whose end marker leaves in_non_test_matter as it is.
InNonTestMatterAfterEndIgnored(line, flag) ==
    IF test_case_match(line) THEN FALSE
    ELSE IF begin_test_section_match(line) THEN FALSE
    ELSE flag

\* in_non_test_matter after the markup check of a line.
InNonTestMatterAfter(line, flag) ==
    IF test_case_match(line) THEN FALSE
    ELSE IF begin_test_section_match(line) THEN FALSE
    ELSE IF end_test_section_match(line) THEN TRUE
    ELSE flag

\* test_cases[name]['text'] = test_cases[name]['text'] + line
AppendToTest(cases, name, line) ==
    [cases EXCEPT ![name].text = Append(@, line)]

\* The dispatch of a line to the text of the current test, to the non-test
\* matter, or to neither.
DispatchTests(cases, name, line, disposable, inTest) ==
    IF ~disposable /\ inTest THEN AppendToTest(cases, name, line) ELSE cases

\* A dispatch that puts the line in front of the non-test matter.
DispatchNonTestMatterInFront(matter, line, disposable, inTest, inNonTest) ==
    IF ~disposable /\ ~inTest /\ inNonTest THEN <<line>> \o matter ELSE matter

DispatchNonTestMatter(matter, line, disposable, inTest, inNonTest) ==
    IF ~disposable /\ ~inTest /\ inNonTest THEN Append(matter, line) ELSE matter

-----------------------------------------------------------------------------
(* naive_consent_theory.py: the Person class.  A dict is a function whose  *)
(* domain is the set of its keys; d[k] = v is (k :> v) @@ d.               *)

\* At most MaxCalls method calls are made.
MaxCalls == 3

\* The Person objects (each is what it is, whatever its name), the names
\* and the actions the calls are made with.
PersonObjects == {1, 2}

PersonNames == {"Alex", "Bo"}

ActionNames == {"action"}

\* Person.__init__
Person(id, name) ==
    [id |-> id, name |-> name,
     actions |-> <<>>, asked_for_consent |-> <<>>, consented |-> <<>>]

\* A request after which the person has answered nothing yet.
consent_requested_by_forgetting(self, personAsking, action) ==
    [self EXCEPT
        !.asked_for_consent = (<<personAsking, action>> :> TRUE) @@ @,
        !.consented = [k \in (DOMAIN @) \ {<<personAsking, action>>} |-> @[k]]]

consent_requested_by(self, personAsking, action) ==
    [self EXCEPT !.asked_for_consent = (<<personAsking, action>> :> TRUE) @@ @]

\* A consent that the absence of a 'no' grants.
consents_unless_refused(self, personAsking, action) ==
    \/ <<personAsking, action>> \notin DOMAIN self.consented
    \/ self.consented[<<personAsking, action>>]

consents(self, personAsking, action) ==
    /\ <<personAsking, action>> \in DOMAIN self.consented
    /\ self.consented[<<personAsking, action>>]

does_not_consent(self, personAsking, action) ==
    [self EXCEPT !.consented = (<<personAsking, action>> :> FALSE) @@ @]

\* revoke_consent = does_not_consent
revoke_consent(self, personAsking, action) ==
    does_not_consent(self, personAsking, action)

do(self, personAffected, action) ==
    [self EXCEPT !.actions = (<<personAffected, action>> :> TRUE) @@ @]

did(self, personAffected, action) ==
    <<personAffected, action>> \in DOMAIN self.actions

give_consent(self, personAsking, action) ==
    [self EXCEPT !.consented = (<<personAsking, action>> :> TRUE) @@ @]

was_asked_for_consent(self, personAsking, action) ==
    <<personAsking, action>> \in DOMAIN self.asked_for_consent

\* A decision without the rule about oneself.
is_ethical_action_of_others_only(personA, personB, action) ==
    LET aName == personA.name
        bName == personB.name
    IN  \/ /\ was_asked_for_consent(personB, aName, action)
           /\ consents(personB, aName, action)
        \/ /\ was_asked_for_consent(personB, aName, action)
           /\ ~consents(personB, aName, action)
           /\ ~did(personA, bName, action)

\* A decision for which a consent that was never asked for is enough.
is_ethical_action_unasked(personA, personB, action) ==
    LET aName == personA.name
        bName == personB.name
    IN  \/ consents(personB, aName, action)
        \/ /\ was_asked_for_consent(personB, aName, action)
           /\ ~did(personA, bName, action)
        \/ personA.id = personB.id

\* is_ethical_action: the three rules in turn, then False; personA ==
\* personB compares the objects, Person having no __eq__.
is_ethical_action(personA, personB, action) ==
    LET aName == personA.name
        bName == personB.name
    IN  IF /\ was_asked_for_consent(personB, aName, action)
           /\ consents(personB, aName, action)
           /\ (did(personA, bName, action) \/ ~did(personA, bName, action))
        THEN TRUE
        ELSE IF /\ was_asked_for_consent(personB, aName, action)
                /\ ~consents(personB, aName, action)
                /\ ~did(personA, bName, action)
             THEN TRUE
             ELSE IF personA.id = personB.id THEN TRUE ELSE FALSE

\* The people of the tests: alex and bo, just constructed.
InitialPeople == (1 :> Person(1, "Alex")) @@ (2 :> Person(2, "Bo"))

\* A method call, as the history keeps it, and what it does to the objects.
Call(self, method, person, action) ==
    [self |-> self, method |-> method, person |-> person, action |-> action]

Apply(heap, call) ==
    [heap EXCEPT ![call.self] =
        IF call.method = "consent_requested_by"
        THEN consent_requested_by(@, call.person, call.action)
        ELSE IF call.method = "give_consent"
        THEN give_consent(@, call.person, call.action)
        ELSE IF call.method = "does_not_consent"
        THEN does_not_consent(@, call.person, call.action)
        ELSE IF call.method = "revoke_consent"
        THEN revoke_consent(@, call.person, call.action)
        ELSE do(@, call.person, call.action)]

-----------------------------------------------------------------------------
(* The state after construction.                                           *)

Init ==
    /\ pc = "split"
    /\ exit_code = -1
    /\ doc = <<>>
    /\ in_test = FALSE
    /\ in_non_test_matter = TRUE
    /\ current_test_count = 0
    /\ line_count = 0
    /\ non_test_matter = <<>>
    /\ test_case_names = <<>>
    /\ test_cases = <<>>
    /\ current_test_name = ""
    /\ requested = <<>>
    /\ tests_to_run = <<>>
    /\ verbosity = 0
    /\ results_path = "absent"
    /\ dir_created = FALSE
    /\ files = <<>>
    /\ next_test = 1
    /\ prover = <<>>
    /\ invocations = <<>>
    /\ scan_pos = 1
    /\ result = "E"
    /\ outcomes = <<>>
    /\ test_results = <<>>
    /\ test_case_details_to_display = <<>>
    /\ next_detail = 1
    /\ reports = <<>>
    /\ stdout = <<>>
    /\ people = InitialPeople
    /\ calls = <<>>

\* One iteration of "for line in input_file" that ends in the duplicate-name
\* error: the name is already appended to test_case_names when sys.exit(1)
\* is called.
DuplicateTestName(line) ==
    LET count == current_test_count + 1
        name == ResolveTestName(line, count)
    IN  /\ pc = "split"
        /\ test_case_match(line)
        /\ has_key(test_cases, name)
        /\ doc' = Append(doc, line)
        /\ line_count' = line_count + 1
        /\ current_test_count' = count
        /\ current_test_name' = name
        /\ test_case_names' = Append(test_case_names, name)
        /\ pc' = "fatal"
        /\ exit_code' = 1
        /\ stdout' = Append(stdout, "ERROR: test with duplicate name")
        /\ UNCHANGED <<in_test, in_non_test_matter, non_test_matter, test_cases>>
        /\ UNCHANGED <<suite_vars, exec_vars, outcomes, test_results,
                       test_case_details_to_display, next_detail, reports>>
        /\ UNCHANGED consent_vars

\* One iteration of "for line in input_file" that runs to its end.
ReadLine(line) ==
    LET count == IF test_case_match(line) THEN current_test_count + 1
                 ELSE current_test_count
        name == IF test_case_match(line) THEN ResolveTestName(line, count)
                ELSE current_test_name
        cases == IF test_case_match(line)
                 THEN (name :> NewTestCase(count, line_count + 1, line.negated))
                          @@ test_cases
                 ELSE test_cases
        inTest == InTestAfter(line, in_test)
        inNonTest == InNonTestMatterAfter(line, in_non_test_matter)
    IN  /\ pc = "split"
        /\ test_case_match(line) => ~has_key(test_cases, name)
        /\ doc' = Append(doc, line)
        /\ line_count' = line_count + 1
        /\ current_test_count' = count
        /\ current_test_name' = name
        /\ test_case_names' = IF test_case_match(line)
                              THEN Append(test_case_names, name)
                              ELSE test_case_names
        /\ in_test' = inTest
        /\ in_non_test_matter' = inNonTest
        /\ test_cases' = DispatchTests(cases, name, line, disposable_line(line), inTest)
        /\ non_test_matter' = DispatchNonTestMatter(non_test_matter, line,
                                  disposable_line(line), inTest, inNonTest)
        /\ UNCHANGED <<pc, exit_code, suite_vars, exec_vars, report_vars>>
        /\ UNCHANGED consent_vars

\* The end of the input file: split_tptp_input returns to run_test_suite.
SplitReturn ==
    /\ pc = "split"
    /\ pc' = "suite"
    /\ UNCHANGED <<exit_code, split_vars, suite_vars, exec_vars, report_vars>>
    /\ UNCHANGED consent_vars

-----------------------------------------------------------------------------
(* run_test_suite, run_test_cases and run_test_case.                       *)

\* The number of names of an explicit selection, and of -v flags, explored.
MaxSelection == 2
MaxVerbosity == 3

\* The document the orchestrator is explored on, and its beginnings: text
\* before, in the dead zone of, inside and after a test section that holds a
\* plain case "a" and a negated, unnamed case.
SuiteDocument ==
    <<PlainLine("x"), BeginLine, PlainLine("y"), CaseLine(FALSE, "a"),
      PlainLine("x"), CaseLine(TRUE, ""), PlainLine("y"), EndLine, PlainLine("y")>>

SuiteDocuments == {SubSeq(SuiteDocument, 1, k) : k \in 0..Len(SuiteDocument)}

\* The names a selection is made of: the two of SuiteDocument and a name
\* that no document holds.
SelectionNames == {"a", "Test-2", "zz"}

Selections ==
    UNION {[1..n -> SelectionNames] : n \in 0..MaxSelection}

\* What may be at the results path when run_test_cases looks: nothing (and
\* os.makedirs succeeds), a directory, something else, or nothing and
\* os.makedirs raises.
ResultsPathStates == {"absent", "dir", "file", "denied"}

\* A line of a prover artifact is the sequence of its tokens; the artifacts
\* the orchestrator is explored on.
ProofFoundLine == <<"# Proof found">>
NoProofFoundLine == <<"# No proof found">>
FailureLine == <<"# Failure:">>
OtherLine == <<"x">>

SuiteArtifacts ==
    {<<ProofFoundLine>>, <<NoProofFoundLine>>, <<FailureLine>>, <<OtherLine>>,
     <<NoProofFoundLine, ProofFoundLine>>}

\* The artifacts the executor alone is explored on: up to MaxArtifactLines
\* lines, each a marker, a marker with text behind it, an indented or
\* lower-case marker, or other text.
MaxArtifactLines == 3

ArtifactLines ==
    {ProofFoundLine, NoProofFoundLine, FailureLine, OtherLine,
     <<"# Proof found", "x">>, <<" ", "# Proof found">>, <<"# proof found">>}

Artifacts ==
    UNION {[1..n -> ArtifactLines] : n \in 0..MaxArtifactLines}

Range(seq) == {seq[i] : i \in 1..Len(seq)}

\* re.compile(p).match(line) for a pattern p that is one token: the line
\* begins with it.
BeginsWith(line, token) == Len(line) >= 1 /\ line[1] = token

\* The body of "for line in results_file" in run_test_case.
ScanStep(res, line) ==
    IF BeginsWith(line, "# Proof found") THEN "S"
    ELSE IF BeginsWith(line, "# No proof found") THEN "F"
    ELSE IF BeginsWith(line, "# Failure:") THEN "?"
    ELSE res

\* A scan that stops at the first line that sets the result.
ScanContinuesUntilMatch(pos, artifact, res) == pos <= Len(artifact) /\ res = "E"

\* "for line in results_file" goes on while lines are left.
ScanContinues(pos, artifact, res) == pos <= Len(artifact)

\* result_filename = test_results_path + os.sep + test_case_name + ".txt"
ResultFilename(name) == "results/" \o name \o ".txt"

\* test_cases.get(test_case_name, {}) with the defaults of the later gets.
GetTestCase(cases, name) ==
    IF name \in DOMAIN cases THEN cases[name]
    ELSE [index |-> 0, line |-> 0, negated |-> FALSE, text |-> <<>>]

\* test_case.get('name', 'Unknown Test'): the table stores no 'name'.
TestCaseName(test_case) == "Unknown Test"

\* No inversion at all.
NegateNever(negated, status) == status

\* An inversion that turns a success into a failure and nothing back.
NegateOneWay(negated, status) ==
    IF negated /\ status = "S" THEN "F" ELSE status

\* The inversion of the status of a negated test case.
Negate(negated, status) ==
    IF negated
    THEN IF status = "S" THEN "F" ELSE IF status = "F" THEN "S" ELSE status
    ELSE status

\* A summary symbol that is the status letter, for a success too.
SummaryCharLetterOnly(status) == status

\* The symbol appended to test_results and written to stdout.
SummaryChar(status) == IF status = "S" THEN "." ELSE status

\* A summary symbol that is kept back instead of written.
WriteSummaryKeptBack(out, symbol) == out

\* sys.stdout.write of the summary symbol, inside the loop.
WriteSummary(out, symbol) == Append(out, symbol)

\* A recording of everything but a success, at every verbosity.
RecordedUnlessSuccess(status, verb) == status # "S"

\* Whether the case is appended to test_case_details_to_display.
Recorded(status, verb) == IF status = "S" THEN verb > 1 ELSE TRUE

\* A table whose two messages of a negated test case are exchanged.
StatusMessageExchanged(negated, status) ==
    IF negated
    THEN IF status = "F" THEN "failed as intended"
         ELSE IF status = "S" THEN "unintentionally/undesirably succeeded"
         ELSE "had ERRORS"
    ELSE IF status = "F" THEN "FAILED"
         ELSE IF status = "S" THEN "succeeded"
         ELSE "had ERRORS"

\* A table in which a likely failure of a plain case reads as a failure.
StatusMessageLikelyFailureAsFailed(negated, status) ==
    IF negated
    THEN IF status = "F" THEN "unintentionally/undesirably succeeded"
         ELSE IF status = "S" THEN "failed as intended"
         ELSE "had ERRORS"
    ELSE IF status \in {"F", "?"} THEN "FAILED"
         ELSE IF status = "S" THEN "succeeded"
         ELSE "had ERRORS"

\* The status message of a detail entry.
StatusMessage(negated, status) ==
    IF negated
    THEN IF status = "F" THEN "unintentionally/undesirably succeeded"
         ELSE IF status = "S" THEN "failed as intended"
         ELSE "had ERRORS"
    ELSE IF status = "F" THEN "FAILED"
         ELSE IF status = "S" THEN "succeeded"
         ELSE "had ERRORS"

\* re.compile('#.*proof found', re.IGNORECASE).match(line)
search_section_match(line) ==
    \/ BeginsWith(line, "# Proof found")
    \/ BeginsWith(line, "# No proof found")
    \/ BeginsWith(line, "# proof found")

\* The lines of the artifact from the first search-section line on.
SearchSection(artifact) ==
    LET hits == {i \in 1..Len(artifact) : search_section_match(artifact[i])}
    IN  IF hits = {} THEN <<>>
        ELSE SubSeq(artifact, CHOOSE i \in hits : \A j \in hits : i <= j,
                    Len(artifact))

\* What a detail entry embeds: the case text it shows and the artifact
\* lines it read.
DetailText(status, verb, text) ==
    IF verb > 0 /\ ~(status = "E" \/ verb > 2) /\ (status = "F" \/ verb > 1)
    THEN text ELSE <<>>

DetailResults(status, verb, artifact) ==
    IF verb > 0
    THEN IF status = "E" \/ verb > 2 THEN artifact
         ELSE IF status = "F" \/ verb > 1 THEN SearchSection(artifact)
         ELSE <<>>
    ELSE <<>>

\* A validation of the requested names against themselves.
UnknownRequestedAmongThemselves(selection, names) ==
    \E i \in 1..Len(selection) : selection[i] \notin Range(selection)

\* Some requested name is not in test_case_names.
UnknownRequested(selection, names) ==
    \E i \in 1..Len(selection) : selection[i] \notin Range(names)

\* A selection put into the order of discovery.
SelectedTestsInDiscoveryOrder(selection, names) ==
    IF selection = <<>> THEN names
    ELSE LET Chosen(n) == n \in Range(selection) IN SelectSeq(names, Chosen)

\* The tests to run: those discovered when none was requested.
SelectedTests(selection, names) ==
    IF selection = <<>> THEN names ELSE selection

\* The exit code of invalid command line usage.
UsageExitCode == 2

\* The exit code of a requested name that the input file does not hold.
UnknownTestExitCode == 1

\* An os.path.isdir that holds of whatever exists.
isdir_of_anything(path) == path \in {"dir", "file"}

\* os.path.exists(test_results_path) and os.path.isdir(test_results_path)
exists(path) == path \in {"dir", "file"}

isdir(path) == path = "dir"

\* run_test_suite after the split, with the command line (selection,
\* verbosity) and the state of the results path, which are drawn here, where
\* they are first read: the validation of the requested names, the default
\* selection and the call of run_test_cases.
RunTestSuite(selection, verb, path) ==
    LET unknown == UnknownRequested(selection, test_case_names)
        tests == SelectedTests(selection, test_case_names)
    IN  /\ pc = "suite"
        /\ requested' = selection
        /\ verbosity' = verb
        /\ results_path' = path
        /\ IF unknown
           THEN /\ tests_to_run' = selection
                /\ stdout' = Append(stdout, "ERROR: given test name not found")
                /\ pc' = "fatal"
                /\ exit_code' = UnknownTestExitCode
           ELSE IF Len(tests) > 0
           THEN /\ tests_to_run' = tests
                /\ pc' = "cases"
                /\ UNCHANGED <<stdout, exit_code>>
           ELSE /\ tests_to_run' = tests
                /\ stdout' = Append(stdout, "ERROR: no valid test cases found")
                /\ pc' = "fatal"
                /\ exit_code' = 1
        /\ UNCHANGED <<split_vars, dir_created, exec_vars, outcomes, test_results,
                       test_case_details_to_display, next_detail, reports>>
        /\ UNCHANGED consent_vars

\* run_test_cases up to its loop: the validation of tests_to_run against
\* itself, the results path, the empty collections and the header.
EnterRunTestCases ==
    /\ pc = "cases"
    /\ IF \E i \in 1..Len(tests_to_run) : tests_to_run[i] \notin Range(tests_to_run)
       THEN /\ stdout' = Append(stdout, "ERROR: given test name not found")
            /\ pc' = "fatal"
            /\ exit_code' = 1
            /\ UNCHANGED <<results_path, dir_created>>
       ELSE IF exists(results_path) /\ ~isdir(results_path)
       THEN /\ stdout' = Append(stdout, "ERROR: results path isn't a directory")
            /\ pc' = "fatal"
            /\ exit_code' = 1
            /\ UNCHANGED <<results_path, dir_created>>
       ELSE IF ~exists(results_path) /\ results_path = "denied"
       THEN /\ stdout' = Append(stdout, "ERROR: couldn't create the results path")
            /\ pc' = "fatal"
            /\ exit_code' = 1
            /\ UNCHANGED <<results_path, dir_created>>
       ELSE /\ results_path' = IF exists(results_path) THEN results_path ELSE "dir"
            /\ dir_created' = ~exists(results_path)
            /\ stdout' = Append(stdout, "Test results:")
            /\ pc' = "loop"
            /\ UNCHANGED exit_code
    /\ test_case_details_to_display' = <<>>
    /\ test_results' = <<>>
    /\ next_test' = 1
    /\ UNCHANGED <<split_vars, requested, tests_to_run, verbosity, files, prover,
                   invocations, scan_pos, result, outcomes, next_detail, reports>>
    /\ UNCHANGED consent_vars

\* An input that is the text of the case alone.
ProverInputWithoutBackground(background, text) == text

\* What input_file holds when the prover is launched: the two writes.
ProverInput(background, text) == background \o text

\* A loop head that takes a launch failure for an error of the case: it
\* appends 'E' and goes on with the next case.
StartTestCaseLaunchFailureAsError(launches) ==
    LET name == tests_to_run[next_test]
        test_case == GetTestCase(test_cases, name)
        input == ProverInput(non_test_matter, test_case.text)
    IN  /\ pc = "loop"
        /\ next_test <= Len(tests_to_run)
        /\ files' = (ResultFilename(name) :> <<>>) @@ files
        /\ IF launches
           THEN /\ prover' = Append(prover, [name |-> name, input |-> input])
                /\ invocations' = Append(invocations, [name |-> name, input |-> input])
                /\ pc' = "running"
                /\ UNCHANGED <<stdout, test_results, next_test>>
           ELSE /\ stdout' = Append(Append(stdout,
                                  "ERROR: an error occurred while running test case "
                                      \o TestCaseName(test_case)), "E")
                /\ test_results' = Append(test_results, "E")
                /\ next_test' = next_test + 1
                /\ UNCHANGED <<pc, prover, invocations>>
        /\ UNCHANGED <<exit_code, split_vars, suite_vars, scan_pos, result, outcomes,
                       test_case_details_to_display, next_detail, reports>>
        /\ UNCHANGED consent_vars

\* A loop head that does not wait for the prover it launched.
StartTestCaseNotWaiting(launches) ==
    LET name == tests_to_run[next_test]
        test_case == GetTestCase(test_cases, name)
        input == ProverInput(non_test_matter, test_case.text)
    IN  /\ pc = "loop"
        /\ next_test <= Len(tests_to_run)
        /\ launches
        /\ files' = (ResultFilename(name) :> <<>>) @@ files
        /\ prover' = Append(prover, [name |-> name, input |-> input])
        /\ invocations' = Append(invocations, [name |-> name, input |-> input])
        /\ next_test' = next_test + 1
        /\ UNCHANGED <<pc, exit_code, split_vars, suite_vars, scan_pos, result,
                       report_vars>>
        /\ UNCHANGED consent_vars

\* The head of the loop body and run_test_case up to subprocess.call: the
\* result file is opened for writing, the input is assembled and the prover
\* is launched, or the launch raises and the run ends.
StartTestCase(launches) ==
    LET name == tests_to_run[next_test]
        test_case == GetTestCase(test_cases, name)
        input == ProverInput(non_test_matter, test_case.text)
    IN  /\ pc = "loop"
        /\ next_test <= Len(tests_to_run)
        /\ files' = (ResultFilename(name) :> <<>>) @@ files
        /\ IF launches
           THEN /\ prover' = Append(prover, [name |-> name, input |-> input])
                /\ invocations' = Append(invocations, [name |-> name, input |-> input])
                /\ pc' = "running"
                /\ UNCHANGED <<stdout, exit_code>>
           ELSE /\ stdout' = Append(stdout, "ERROR: an error occurred while running test case "
                                                \o TestCaseName(test_case))
                /\ pc' = "fatal"
                /\ exit_code' = 1
                /\ UNCHANGED <<prover, invocations>>
        /\ UNCHANGED <<split_vars, suite_vars, next_test, scan_pos, result, outcomes,
                       test_results, test_case_details_to_display, next_detail, reports>>
        /\ UNCHANGED consent_vars

\* The prover ends, having written the artifact to the result file;
\* subprocess.call returns and run_test_case opens the file for reading.
ProverExit(artifact) ==
    /\ pc = "running"
    /\ files' = [files EXCEPT ![ResultFilename(prover[1].name)] = artifact]
    /\ prover' = Tail(prover)
    /\ result' = "E"
    /\ scan_pos' = 1
    /\ pc' = "scan"
    /\ UNCHANGED <<exit_code, split_vars, suite_vars, next_test, invocations, report_vars>>
    /\ UNCHANGED consent_vars

\* One iteration of "for line in results_file".
ScanLine ==
    LET artifact == files[ResultFilename(tests_to_run[next_test])]
    IN  /\ pc = "scan"
        /\ ScanContinues(scan_pos, artifact, result)
        /\ result' = ScanStep(result, artifact[scan_pos])
        /\ scan_pos' = scan_pos + 1
        /\ UNCHANGED <<pc, exit_code, split_vars, suite_vars, files, next_test, prover,
                       invocations, report_vars>>
        /\ UNCHANGED consent_vars

\* A return of run_test_case after which a result 'E' or '?' ends the run.
ScanReturnErrorEndsRun ==
    LET name == tests_to_run[next_test]
        artifact == files[ResultFilename(name)]
        negated == GetTestCase(test_cases, name).negated
        status == Negate(negated, result)
    IN  /\ pc = "scan"
        /\ ~ScanContinues(scan_pos, artifact, result)
        /\ test_results' = Append(test_results, SummaryChar(status))
        /\ stdout' = WriteSummary(stdout, SummaryChar(status))
        /\ test_case_details_to_display' =
               IF Recorded(status, verbosity)
               THEN Append(test_case_details_to_display,
                           [name |-> name, status |-> status,
                            result_filename |-> ResultFilename(name)])
               ELSE test_case_details_to_display
        /\ outcomes' = Append(outcomes, [name |-> name, negated |-> negated,
                                         result |-> result, status |-> status,
                                         artifact |-> artifact])
        /\ next_test' = next_test + 1
        /\ pc' = IF result \in {"E", "?"} THEN "fatal" ELSE "loop"
        /\ exit_code' = IF result \in {"E", "?"} THEN 1 ELSE exit_code
        /\ UNCHANGED <<split_vars, suite_vars, files, prover, invocations,
                       scan_pos, result, next_detail, reports>>
        /\ UNCHANGED consent_vars

\* run_test_case returns its result, and the loop body of run_test_cases
\* goes on: the negation, the summary symbol and the recording.
ScanReturn ==
    LET name == tests_to_run[next_test]
        artifact == files[ResultFilename(name)]
        negated == GetTestCase(test_cases, name).negated
        status == Negate(negated, result)
    IN  /\ pc = "scan"
        /\ ~ScanContinues(scan_pos, artifact, result)
        /\ test_results' = Append(test_results, SummaryChar(status))
        /\ stdout' = WriteSummary(stdout, SummaryChar(status))
        /\ test_case_details_to_display' =
               IF Recorded(status, verbosity)
               THEN Append(test_case_details_to_display,
                           [name |-> name, status |-> status,
                            result_filename |-> ResultFilename(name)])
               ELSE test_case_details_to_display
        /\ outcomes' = Append(outcomes, [name |-> name, negated |-> negated,
                                         result |-> result, status |-> status,
                                         artifact |-> artifact])
        /\ next_test' = next_test + 1
        /\ pc' = "loop"
        /\ UNCHANGED <<exit_code, split_vars, suite_vars, files, prover, invocations,
                       scan_pos, result, next_detail, reports>>
        /\ UNCHANGED consent_vars

\* The loop over tests_to_run is over.
EndOfTests ==
    /\ pc = "loop"
    /\ next_test > Len(tests_to_run)
    /\ pc' = "details"
    /\ next_detail' = 1
    /\ UNCHANGED <<exit_code, split_vars, suite_vars, exec_vars, outcomes, test_results,
                   test_case_details_to_display, reports, stdout>>
    /\ UNCHANGED consent_vars

\* One iteration of the loop over test_case_details_to_display; a name
\* that is no key of test_cases raises KeyError.
DisplayDetail ==
    LET entry == test_case_details_to_display[next_detail]
    IN  /\ pc = "details"
        /\ next_detail <= Len(test_case_details_to_display)
        /\ IF entry.name \in DOMAIN test_cases
           THEN LET test_case == test_cases[entry.name]
                    artifact == files[entry.result_filename]
                IN  /\ reports' = Append(reports,
                          [name |-> entry.name,
                           index |-> test_case.index,
                           line |-> test_case.line,
                           status |-> entry.status,
                           status_message |-> StatusMessage(test_case.negated, entry.status),
                           text |-> DetailText(entry.status, verbosity, test_case.text),
                           results |-> DetailResults(entry.status, verbosity, artifact)])
                    /\ next_detail' = next_detail + 1
                    /\ UNCHANGED <<pc, exit_code>>
           ELSE /\ pc' = "fatal"
                /\ exit_code' = 1
                /\ UNCHANGED <<reports, next_detail>>
        /\ UNCHANGED <<split_vars, suite_vars, exec_vars, outcomes, test_results,
                       test_case_details_to_display, stdout>>
        /\ UNCHANGED consent_vars

\* The end of run_test_cases: the summary once more when cases were
\* recorded, and the return through run_test_suite and main.
RunComplete ==
    /\ pc = "details"
    /\ next_detail > Len(test_case_details_to_display)
    /\ stdout' = IF Len(test_case_details_to_display) > 0
                 THEN (stdout \o <<"Test results:">>) \o test_results
                 ELSE stdout
    /\ pc' = "done"
    /\ exit_code' = 0
    /\ UNCHANGED <<split_vars, suite_vars, exec_vars, outcomes, test_results,
                   test_case_details_to_display, next_detail, reports>>
    /\ UNCHANGED consent_vars

-----------------------------------------------------------------------------
(* The whole program: every document of up to MaxLines lines (and the      *)
(* beginnings of SuiteDocument) is split; the orchestrator is explored on  *)
(* the beginnings of SuiteDocument.                                        *)

Next ==
    \/ /\ pc = "split"
       /\ \E line \in Lines :
              /\ Len(doc) < MaxLines \/ Append(doc, line) \in SuiteDocuments
              /\ ReadLine(line)
    \/ /\ pc = "split"
       /\ Len(doc) < MaxLines
       /\ \E line \in Lines : DuplicateTestName(line)
    \/ SplitReturn
    \/ /\ pc = "suite"
       /\ doc \in SuiteDocuments
       /\ \E selection \in Selections, verb \in 0..MaxVerbosity,
             path \in ResultsPathStates :
              RunTestSuite(selection, verb, path)
    \/ EnterRunTestCases
    \/ \E launches \in BOOLEAN : StartTestCase(launches)
    \/ \E artifact \in SuiteArtifacts : ProverExit(artifact)
    \/ ScanLine
    \/ ScanReturn
    \/ EndOfTests
    \/ DisplayDetail
    \/ RunComplete

Spec == Init /\ [][Next]_vars

-----------------------------------------------------------------------------
(* The executor alone: run_test_case from the moment its prover runs, in   *)
(* the run of the first five lines of SuiteDocument with no selection and  *)
(* an existing results directory, on every artifact of Artifacts.          *)

InitExecutor ==
    /\ pc = "running"
    /\ exit_code = -1
    /\ doc = SubSeq(SuiteDocument, 1, 5)
    /\ in_test = TRUE
    /\ in_non_test_matter = FALSE
    /\ current_test_count = 1
    /\ line_count = 5
    /\ non_test_matter = <<PlainLine("x")>>
    /\ test_case_names = <<"a">>
    /\ test_cases = ("a" :> [index |-> 1, line |-> 4, negated |-> FALSE,
                             text |-> <<CaseLine(FALSE, "a"), PlainLine("x")>>])
    /\ current_test_name = "a"
    /\ requested = <<>>
    /\ tests_to_run = <<"a">>
    /\ verbosity = 0
    /\ results_path = "dir"
    /\ dir_created = FALSE
    /\ files = (ResultFilename("a") :> <<>>)
    /\ next_test = 1
    /\ prover = <<[name |-> "a",
                   input |-> <<PlainLine("x"), CaseLine(FALSE, "a"), PlainLine("x")>>]>>
    /\ invocations = prover
    /\ scan_pos = 1
    /\ result = "E"
    /\ outcomes = <<>>
    /\ test_results = <<>>
    /\ test_case_details_to_display = <<>>
    /\ next_detail = 1
    /\ reports = <<>>
    /\ stdout = <<"Test results:">>
    /\ people = InitialPeople
    /\ calls = <<>>

NextExecutor ==
    \/ \E artifact \in Artifacts : ProverExit(artifact)
    \/ ScanLine
    \/ ScanReturn

SpecExecutor == InitExecutor /\ [][NextExecutor]_vars

-----------------------------------------------------------------------------
(* The orchestrator alone: run_test_cases called with the case table and   *)
(* the background of SuiteDocument and with any selection, names that are  *)
(* no key of the table included.                                           *)

InitRunTestCases ==
    /\ pc = "cases"
    /\ exit_code = -1
    /\ doc = SuiteDocument
    /\ in_test = FALSE
    /\ in_non_test_matter = TRUE
    /\ current_test_count = 2
    /\ line_count = 9
    /\ non_test_matter = <<PlainLine("x"), PlainLine("y")>>
    /\ test_case_names = <<"a", "Test-2">>
    /\ test_cases =
           ("a" :> [index |-> 1, line |-> 4, negated |-> FALSE,
                    text |-> <<CaseLine(FALSE, "a"), PlainLine("x")>>])
           @@ ("Test-2" :> [index |-> 2, line |-> 6, negated |-> TRUE,
                            text |-> <<CaseLine(TRUE, ""), PlainLine("y")>>])
    /\ current_test_name = "Test-2"
    /\ tests_to_run \in Selections
    /\ requested = tests_to_run
    /\ verbosity \in 0..MaxVerbosity
    /\ results_path \in ResultsPathStates
    /\ dir_created = FALSE
    /\ files = <<>>
    /\ next_test = 1
    /\ prover = <<>>
    /\ invocations = <<>>
    /\ scan_pos = 1
    /\ result = "E"
    /\ outcomes = <<>>
    /\ test_results = <<>>
    /\ test_case_details_to_display = <<>>
    /\ next_detail = 1
    /\ reports = <<>>
    /\ stdout = <<>>
    /\ people = InitialPeople
    /\ calls = <<>>

NextRunTestCases ==
    \/ EnterRunTestCases
    \/ \E launches \in BOOLEAN : StartTestCase(launches)
    \/ \E artifact \in SuiteArtifacts : ProverExit(artifact)
    \/ ScanLine
    \/ ScanReturn
    \/ EndOfTests
    \/ DisplayDetail
    \/ RunComplete

SpecRunTestCases == InitRunTestCases /\ [][NextRunTestCases]_vars

-----------------------------------------------------------------------------
(* The whole program, its steps taken: the interpreter goes on with        *)
(* run_test_cases as long as it has a step, and a prover that was          *)
(* launched exits (subprocess.call returns).                               *)

SpecFair == Init /\ [][Next]_vars /\ WF_vars(NextRunTestCases)

-----------------------------------------------------------------------------
(* naive_consent_theory.py: method calls on the people of InitialPeople.   *)

CallConsentRequestedBy(self, personAsking, action) ==
    /\ Len(calls) < MaxCalls
    /\ people' = [people EXCEPT ![self] = consent_requested_by(@, personAsking, action)]
    /\ calls' = Append(calls, Call(self, "consent_requested_by", personAsking, action))
    /\ UNCHANGED tptp_vars

CallGiveConsent(self, personAsking, action) ==
    /\ Len(calls) < MaxCalls
    /\ people' = [people EXCEPT ![self] = give_consent(@, personAsking, action)]
    /\ calls' = Append(calls, Call(self, "give_consent", personAsking, action))
    /\ UNCHANGED tptp_vars

CallDoesNotConsent(self, personAsking, action) ==
    /\ Len(calls) < MaxCalls
    /\ people' = [people EXCEPT ![self] = does_not_consent(@, personAsking, action)]
    /\ calls' = Append(calls, Call(self, "does_not_consent", personAsking, action))
    /\ UNCHANGED tptp_vars

CallRevokeConsent(self, personAsking, action) ==
    /\ Len(calls) < MaxCalls
    /\ people' = [people EXCEPT ![self] = revoke_consent(@, personAsking, action)]
    /\ calls' = Append(calls, Call(self, "revoke_consent", personAsking, action))
    /\ UNCHANGED tptp_vars

CallDo(self, personAffected, action) ==
    /\ Len(calls) < MaxCalls
    /\ people' = [people EXCEPT ![self] = do(@, personAffected, action)]
    /\ calls' = Append(calls, Call(self, "do", personAffected, action))
    /\ UNCHANGED tptp_vars

NextConsent ==
    \/ \E self \in PersonObjects, personAsking \in PersonNames, action \in ActionNames :
           CallConsentRequestedBy(self, personAsking, action)
    \/ \E self \in PersonObjects, personAsking \in PersonNames, action \in ActionNames :
           CallGiveConsent(self, personAsking, action)
    \/ \E self \in PersonObjects, personAsking \in PersonNames, action \in ActionNames :
           CallDoesNotConsent(self, personAsking, action)
    \/ \E self \in PersonObjects, personAsking \in PersonNames, action \in ActionNames :
           CallRevokeConsent(self, personAsking, action)
    \/ \E self \in PersonObjects, personAffected \in PersonNames, action \in ActionNames :
           CallDo(self, personAffected, action)

SpecConsent == Init /\ [][NextConsent]_vars

-----------------------------------------------------------------------------
(* What the document read so far says, line by line.                       *)

IsMarkerLine(line) == line.mark # "none"

\* The positions of the test-case markers of document d.
CaseMarkers(d) == {i \in 1..Len(d) : d[i].mark = "case"}

\* The name the test-case marker at position i of d resolves to: it is the
\* k-th marker of d, named and unnamed markers counted alike.
NameAt(d, i) ==
    ResolveTestName(d[i], Cardinality({j \in CaseMarkers(d) : j <= i}))

\* The position of the k-th test-case marker of d.
MarkerAt(d, k) ==
    CHOOSE i \in CaseMarkers(d) : Cardinality({j \in CaseMarkers(d) : j <= i}) = k

\* Two test-case markers of d resolve to the same name.
HasDuplicateName(d) ==
    \E i, j \in CaseMarkers(d) : i < j /\ NameAt(d, i) = NameAt(d, j)

-----------------------------------------------------------------------------
(* C1: whenever two test-case markers of the document read so far resolve  *)
(* to the same name, the program has ended in the fatal state with exit    *)
(* code 1 at the second of them (the last line read), nothing was          *)
(* returned to run_test_suite, no prover was launched, no result file was  *)
(* opened and the results directory was not created.                       *)
C1_DuplicateNameIsFatal ==
    HasDuplicateName(doc) =>
        /\ pc = "fatal"
        /\ exit_code = 1
        /\ Len(doc) \in CaseMarkers(doc)
        /\ \E i \in CaseMarkers(doc) :
               i < Len(doc) /\ NameAt(doc, i) = NameAt(doc, Len(doc))
        /\ ~HasDuplicateName(SubSeq(doc, 1, Len(doc) - 1))
        /\ invocations = <<>>
        /\ prover = <<>>
        /\ files = <<>>
        /\ ~dir_created

\* A plain case inside a test section and, after the section's end, a
\* negated case of the same name (after strip).
C1_Witness ==
    /\ pc = "fatal"
    /\ doc = <<BeginLine, CaseLine(FALSE, "a"), EndLine, CaseLine(TRUE, "a ")>>

(* C2: once a document without duplicate names is split, the name list     *)
(* holds one name per test-case marker, in document order, the keys of     *)
(* the case table are those names, and the case under the i-th name has    *)
(* index i.                                                                *)
C2_NamesAndIndexes ==
    (pc # "split" /\ ~HasDuplicateName(doc)) =>
        LET N == Cardinality(CaseMarkers(doc))
        IN  /\ Len(test_case_names) = N
            /\ \A k \in 1..N : test_case_names[k] = NameAt(doc, MarkerAt(doc, k))
            /\ DOMAIN test_cases = Range(test_case_names)
            /\ Cardinality(DOMAIN test_cases) = N
            /\ \A k \in 1..N : test_cases[test_case_names[k]].index = k

\* Three markers, the second of them unnamed, with a plain line before.
C2_Witness ==
    /\ pc = "suite"
    /\ Len(doc) = 4
    /\ doc[1].mark = "none"
    /\ test_case_names = <<"a", "Test-2", "Test-3">>

(* C3 as claimed: every line of every case body and of the background is   *)
(* a non-marker line.                                                      *)
C3_NoMarkerLineStored ==
    /\ \A n \in DOMAIN test_cases :
           \A i \in 1..Len(test_cases[n].text) : ~IsMarkerLine(test_cases[n].text[i])
    /\ \A i \in 1..Len(non_test_matter) : ~IsMarkerLine(non_test_matter[i])

(* C3 as amended: no begin or end marker line is in the background or in   *)
(* a case body and no marker line at all is in the background; the         *)
(* test-case marker line that opens a case is the first line of that       *)
(* case's body, and every other line of the body is a non-marker line.     *)
C3_OnlyOpeningMarkerStored ==
    /\ \A n \in DOMAIN test_cases :
           LET text == test_cases[n].text
           IN  /\ Len(text) >= 1
               /\ text[1] = doc[test_cases[n].line]
               /\ test_case_match(text[1])
               /\ \A i \in 2..Len(text) : ~IsMarkerLine(text[i])
    /\ \A i \in 1..Len(non_test_matter) : ~IsMarkerLine(non_test_matter[i])

\* A case read with a begin and an end marker after its opening marker.
C3_Witness ==
    /\ pc = "suite"
    /\ doc = <<CaseLine(FALSE, "a"), BeginLine, PlainLine("x"), EndLine>>
    /\ Len(test_cases["a"].text) = 2

-----------------------------------------------------------------------------
(* The step that reads a line, seen from outside: where the line went.     *)

LastLine(d) == d[Len(d)]

\* A step read one more line of the document.
LineRead == Len(doc') = Len(doc) + 1

TextBefore(n) == IF n \in DOMAIN test_cases THEN test_cases[n].text ELSE <<>>

\* The cases whose body the step appended the line to, and those whose
\* body it left as it was.
AppendedTo ==
    {n \in DOMAIN test_cases' :
        test_cases'[n].text = Append(TextBefore(n), LastLine(doc'))}

Untouched ==
    {n \in DOMAIN test_cases' :
        n \in DOMAIN test_cases /\ test_cases'[n].text = test_cases[n].text}

AppendedToOneCase ==
    /\ Cardinality(AppendedTo) = 1
    /\ AppendedTo \cup Untouched = DOMAIN test_cases'
    /\ non_test_matter' = non_test_matter

AppendedToBackground ==
    /\ non_test_matter' = Append(non_test_matter, LastLine(doc'))
    /\ Untouched = DOMAIN test_cases'

AppendedNowhere ==
    /\ non_test_matter' = non_test_matter
    /\ Untouched = DOMAIN test_cases'

\* in_test when line b of d is read: a test-case marker came before, with
\* no end marker since.
CaseOpenBefore(d, b) ==
    \E c \in CaseMarkers(d) :
        c < b /\ \A m \in (c + 1)..(b - 1) : d[m].mark # "end"

\* The last line of d lies after a begin marker that was read with no case
\* open, with no marker of the kinds `closing` in between.
AfterBeginBefore(d, closing) ==
    \E b \in 1..(Len(d) - 1) :
        /\ d[b].mark = "begin"
        /\ ~CaseOpenBefore(d, b)
        /\ \A m \in (b + 1)..(Len(d) - 1) : d[m].mark \notin closing

(* C4: once a marker line of any kind follows the opening marker of a      *)
(* case, no later line is appended to the body of that case.               *)
C4_BodyEndsAtAnyMarker ==
    [][\A n \in DOMAIN test_cases :
           (\E j \in (test_cases[n].line + 1)..Len(doc) : IsMarkerLine(doc[j]))
               => (n \in DOMAIN test_cases' /\ test_cases'[n].text = test_cases[n].text)]_vars

(* C5 as claimed: a non-marker line read after a begin marker that was     *)
(* read while no case was open, and before the next test-case marker, is   *)
(* appended neither to the background nor to a case body.                  *)
C5_DeadZoneUntilNextCase ==
    [][(LineRead /\ ~IsMarkerLine(LastLine(doc')) /\ AfterBeginBefore(doc', {"case"}))
           => AppendedNowhere]_vars

(* C5 as amended: a non-marker line read after a begin marker that was     *)
(* read while no case was open, and before the next test-case or           *)
(* end-test-section marker, is appended neither to the background nor to   *)
(* a case body.                                                            *)
C5_DeadZoneUntilNextCaseOrEnd ==
    [][(LineRead /\ ~IsMarkerLine(LastLine(doc')) /\ AfterBeginBefore(doc', {"case", "end"}))
           => AppendedNowhere]_vars

\* Background, a begin marker with two lines behind it, and nothing stored
\* of the two.
C5_Witness ==
    /\ doc = <<PlainLine("x"), BeginLine, PlainLine("y"), PlainLine("x")>>
    /\ non_test_matter = <<PlainLine("x")>>
    /\ test_cases = <<>>

\* Line i of d is a non-marker line before the first begin or test-case
\* marker, or between an end marker and the next begin or test-case marker.
InBackground(d, i) ==
    /\ ~IsMarkerLine(d[i])
    /\ \/ \A m \in 1..(i - 1) : d[m].mark \notin {"begin", "case"}
       \/ \E e \in 1..(i - 1) :
              /\ d[e].mark = "end"
              /\ \A m \in (e + 1)..(i - 1) : d[m].mark \notin {"begin", "case"}

BackgroundOf(d) ==
    LET Keep(i) == InBackground(d, i)
        kept == SelectSeq([i \in 1..Len(d) |-> i], Keep)
    IN  [k \in 1..Len(kept) |-> d[kept[k]]]

(* C6: the background is, in document order and with nothing lost or      *)
(* repeated, the non-marker lines that lie before the first begin or       *)
(* test-case marker or between an end marker and the next begin or         *)
(* test-case marker; it is so after every line read, and so at the end of  *)
(* the document.                                                           *)
C6_BackgroundInDocumentOrder ==
    non_test_matter = BackgroundOf(doc)

\* Background before a case and, different from it, after the end marker.
C6_Witness ==
    /\ pc = "suite"
    /\ doc = <<PlainLine("x"), CaseLine(FALSE, "a"), EndLine, PlainLine("y")>>
    /\ non_test_matter = <<PlainLine("x"), PlainLine("y")>>

\* How many of the formulas fs hold.
Count(fs) == Cardinality({i \in 1..Len(fs) : fs[i]})

(* C7 as claimed: every line read is in exactly one of three classes:      *)
(* appended to the body of exactly one case, appended to the background,   *)
(* or a marker line appended nowhere.                                      *)
C7_ThreeClasses ==
    [][LineRead =>
           Count(<<AppendedToOneCase,
                   AppendedToBackground,
                   IsMarkerLine(LastLine(doc')) /\ AppendedNowhere>>) = 1]_vars

(* C7 as amended: every line read is in exactly one of four classes:       *)
(* appended to the body of exactly one case, appended to the background,   *)
(* a marker line appended nowhere, or a non-marker line of a dead zone     *)
(* (after a begin marker read with no case open, before the next           *)
(* test-case or end marker) appended nowhere.                              *)
C7_FourClasses ==
    [][LineRead =>
           Count(<<AppendedToOneCase,
                   AppendedToBackground,
                   IsMarkerLine(LastLine(doc')) /\ AppendedNowhere,
                   /\ ~IsMarkerLine(LastLine(doc'))
                   /\ AfterBeginBefore(doc', {"case", "end"})
                   /\ AppendedNowhere>>) = 1]_vars

\* A document with a line of each class: background, a begin marker, a
\* dead-zone line, and a case with a line.
C7_Witness ==
    /\ pc = "suite"
    /\ doc = <<PlainLine("x"), BeginLine, PlainLine("y"), CaseLine(FALSE, "a"),
               PlainLine("x")>>
    /\ non_test_matter = <<PlainLine("x")>>
    /\ test_cases["a"].text = <<CaseLine(FALSE, "a"), PlainLine("x")>>

-----------------------------------------------------------------------------
(* The classification of an artifact, read off its lines.                  *)

\* The result a line stands for: it begins with one of the three markers,
\* or it stands for none.
MarkerClass(line) ==
    CASE BeginsWith(line, "# Proof found") -> "S"
      [] BeginsWith(line, "# No proof found") -> "F"
      [] BeginsWith(line, "# Failure:") -> "?"
      [] OTHER -> "none"

ClassOfLastMarker(artifact) ==
    LET hits == {i \in 1..Len(artifact) : MarkerClass(artifact[i]) # "none"}
    IN  IF hits = {} THEN "E"
        ELSE MarkerClass(artifact[CHOOSE i \in hits : \A j \in hits : j <= i])

(* C8: when run_test_case has returned, its result is the class of the     *)
(* last line of the artifact that begins with one of the three markers     *)
(* ('S', 'F' or '?'), it is 'E' exactly when no line begins with one, and  *)
(* the scan has gone through every line of the artifact.                   *)
C8_LastMarkerLineWins ==
    (pc = "loop" /\ outcomes # <<>>) =>
        LET last == outcomes[Len(outcomes)]
            artifact == files[ResultFilename(last.name)]
        IN  /\ last.result = ClassOfLastMarker(artifact)
            /\ (last.result = "E") <=>
                   (\A i \in 1..Len(artifact) : MarkerClass(artifact[i]) = "none")
            /\ scan_pos = Len(artifact) + 1

\* "No proof found", then "Proof found", then other text: a success.
C8_Witness ==
    /\ pc = "loop"
    /\ files[ResultFilename("a")] = <<NoProofFoundLine, ProofFoundLine, OtherLine>>
    /\ outcomes # <<>>
    /\ outcomes[1].result = "S"

-----------------------------------------------------------------------------
(* The orchestrator's results.                                             *)

\* The status a result becomes: Success and Failure change places.
Swapped(status) ==
    CASE status = "S" -> "F"
      [] status = "F" -> "S"
      [] status = "?" -> "?"
      [] status = "E" -> "E"

(* C9: the status recorded for a negated case is its result with Success   *)
(* and Failure swapped and LikelyFailure and Error left alone, negating    *)
(* that status once more gives the result back, and the status of a case   *)
(* that is not negated is its result.                                      *)
C9_NegationIsAnInvolution ==
    \A i \in 1..Len(outcomes) :
        LET o == outcomes[i]
        IN  /\ o.negated = test_cases[o.name].negated
            /\ o.status = (IF o.negated THEN Swapped(o.result) ELSE o.result)
            /\ Negate(o.negated, o.status) = o.result

\* A run of the plain and of the negated case, each with a failure result.
C9_Witness ==
    /\ pc = "done"
    /\ Len(outcomes) = 2
    /\ ~outcomes[1].negated /\ outcomes[1].result = "F" /\ outcomes[1].status = "F"
    /\ outcomes[2].negated /\ outcomes[2].result = "F" /\ outcomes[2].status = "S"

(* C10: when the run has completed, the summary string has one symbol per  *)
(* selected name, repetitions counted, and the i-th symbol is '.' when     *)
(* the result of the i-th selected case, negated if the case is negated,   *)
(* is Success, and the letter of that status otherwise.                    *)
C10_SummaryPerSelectedCase ==
    pc = "done" =>
        /\ Len(test_results) = Len(tests_to_run)
        /\ Len(outcomes) = Len(tests_to_run)
        /\ \A i \in 1..Len(tests_to_run) :
               LET o == outcomes[i]
                   effective == IF test_cases[tests_to_run[i]].negated
                                THEN Swapped(o.result) ELSE o.result
               IN  /\ o.name = tests_to_run[i]
                   /\ test_results[i] = (IF effective = "S" THEN "." ELSE effective)
                   /\ test_results[i] \in {".", "F", "?", "E"}

\* The negated case selected twice: a failure result, then a success.
C10_Witness ==
    /\ pc = "done"
    /\ tests_to_run = <<"Test-2", "Test-2">>
    /\ test_results = <<".", "F">>

-----------------------------------------------------------------------------
(* Fatal errors of the orchestrator.                                       *)

\* Some name of the selection the command line gave is not among the names
\* the splitter found.
UnknownNameRequested ==
    \E i \in 1..Len(requested) : requested[i] \notin Range(test_case_names)

\* The message of the prover launch failure was written.
LaunchFailed ==
    \E i \in 1..Len(stdout) :
        stdout[i] = "ERROR: an error occurred while running test case Unknown Test"

\* The summary symbols written to the output so far.
IsSummarySymbol(item) == item \in {".", "S", "F", "?", "E"}

SummaryWritten == SelectSeq(stdout, IsSummarySymbol)

(* C11: when the selection given to run_test_suite holds a name the        *)
(* splitter did not find, the run is in the fatal state, no prover was     *)
(* launched, no result file was opened and the results directory was not   *)
(* created, whatever else the selection holds.                             *)
C11_UnknownNameAbortsBeforeExecution ==
    UnknownNameRequested =>
        /\ pc = "fatal"
        /\ invocations = <<>>
        /\ prover = <<>>
        /\ files = <<>>
        /\ ~dir_created
        /\ test_results = <<>>

\* A known name first, then the unknown one, and no results directory yet.
C11_Witness ==
    /\ pc = "fatal"
    /\ requested = <<"a", "zz">>
    /\ Len(test_case_names) = 2
    /\ results_path = "absent"

(* C12 as claimed: a requested name that the document does not hold ends   *)
(* the process with exit code 2.                                           *)
C12_UnknownNameExitsWithTwo ==
    UnknownNameRequested => exit_code = 2

(* C12 as amended: a requested name that the document does not hold ends   *)
(* the process with exit code 1, the code of the other fatal errors, not   *)
(* with the 2 of invalid command line usage.                               *)
C12_UnknownNameExitsWithOne ==
    UnknownNameRequested => (exit_code = 1 /\ exit_code # UsageExitCode)

\* The unknown name alone, in a document with a case.
C12_Witness ==
    /\ pc = "fatal"
    /\ requested = <<"zz">>
    /\ test_case_names = <<"a">>

(* C13: the i-th prover launched is for the i-th name of the selection as  *)
(* given, or of the splitter's name list when no selection was given, and  *)
(* a completed run has launched one prover per name of it.                 *)
C13_InvocationsInSelectionOrder ==
    LET order == IF requested = <<>> THEN test_case_names ELSE requested
    IN  /\ Len(invocations) <= Len(order)
        /\ \A i \in 1..Len(invocations) : invocations[i].name = order[i]
        /\ pc = "done" => Len(invocations) = Len(order)

\* A selection in the reverse of the discovery order, run to completion.
C13_Witness ==
    /\ pc = "done"
    /\ test_case_names = <<"a", "Test-2">>
    /\ requested = <<"Test-2", "a">>
    /\ Len(invocations) = 2

\* No selection: both cases of the document, run to completion.
C13_WitnessDiscoveryOrder ==
    /\ pc = "done"
    /\ requested = <<>>
    /\ Len(invocations) = 2

(* C14: when the prover could not be launched for the k-th selected case,  *)
(* the run is in the fatal state with exit code 1, the k-1 cases before    *)
(* it and no other have a result and a summary symbol, and k-1 provers     *)
(* were launched in all: none for the k-th case or a later one.            *)
C14_LaunchFailureIsFatal ==
    LaunchFailed =>
        /\ pc = "fatal"
        /\ exit_code = 1
        /\ prover = <<>>
        /\ next_test <= Len(tests_to_run)
        /\ Len(outcomes) = next_test - 1
        /\ Len(test_results) = next_test - 1
        /\ Len(SummaryWritten) = next_test - 1
        /\ Len(invocations) = next_test - 1

\* The launch fails for the second of two selected cases.
C14_Witness ==
    /\ LaunchFailed
    /\ Len(tests_to_run) = 2
    /\ next_test = 2
    /\ test_results = <<"F">>

(* C15 as claimed: in the fatal state no summary symbol and no detail      *)
(* entry has been written.                                                 *)
C15_FatalLeavesNoPartialReport ==
    pc = "fatal" => (SummaryWritten = <<>> /\ reports = <<>>)

(* C15 as amended: in the fatal state no detail entry has been written;    *)
(* after an unknown name or a results-path error no summary symbol has     *)
(* been written either, and after a launch failure at the k-th selected    *)
(* case the summary symbols of the k-1 cases before it have been written.  *)
C15_FatalLeavesOnlyEarlierSymbols ==
    pc = "fatal" =>
        /\ reports = <<>>
        /\ SummaryWritten = test_results
        /\ Len(SummaryWritten) = (IF LaunchFailed THEN next_test - 1 ELSE 0)

\* A launch failure at the second case, the symbol of the first written.
C15_Witness ==
    /\ pc = "fatal"
    /\ LaunchFailed
    /\ SummaryWritten = <<".">>

-----------------------------------------------------------------------------
(* The detail report.                                                      *)

\* The name and status of each entry of a sequence of outcomes or of
\* recorded details.
NamesAndStatuses(entries) ==
    [i \in 1..Len(entries) |-> [name |-> entries[i].name, status |-> entries[i].status]]

IsNotSuccess(outcome) == outcome.status # "S"

IsNotSuccessOrVerbose(outcome) == outcome.status # "S" \/ verbosity > 1

\* A non-negated case whose artifact yields a success has the summary
\* symbol '.'.
PlainSuccessIsADot ==
    \A i \in 1..Len(outcomes) :
        (~outcomes[i].negated /\ outcomes[i].result = "S") => test_results[i] = "."

(* C16 as claimed: at every verbosity the recorded cases are the cases     *)
(* whose effective status is not Success, in the order run, and a          *)
(* non-negated Success gives the summary '.'.                              *)
C16_RecordedIffNotSuccess ==
    /\ NamesAndStatuses(test_case_details_to_display)
           = NamesAndStatuses(SelectSeq(outcomes, IsNotSuccess))
    /\ PlainSuccessIsADot

(* C16 as amended: the recorded cases are the cases whose effective status *)
(* is not Success when verbosity is 0 or 1 and all the cases run when      *)
(* verbosity is above 1, in the order run; a non-negated Success gives     *)
(* the summary '.' at every verbosity.                                     *)
C16_RecordedIffNotSuccessOrVerbose ==
    /\ NamesAndStatuses(test_case_details_to_display)
           = NamesAndStatuses(SelectSeq(outcomes, IsNotSuccessOrVerbose))
    /\ PlainSuccessIsADot

\* A success recorded at verbosity 2, next to its summary '.'.
C16_Witness ==
    /\ verbosity = 2
    /\ \E i \in 1..Len(outcomes) :
           /\ ~outcomes[i].negated
           /\ outcomes[i].status = "S"
           /\ test_results[i] = "."
    /\ \E j \in 1..Len(test_case_details_to_display) :
           test_case_details_to_display[j].status = "S"

\* The table of status phrases as claimed, and as the code has it.
ClaimedPhrase(negated, status) ==
    IF status = "F" THEN (IF negated THEN "failed as intended" ELSE "FAILED")
    ELSE IF status = "S"
         THEN (IF negated THEN "unintentionally/undesirably succeeded" ELSE "succeeded")
         ELSE "had ERRORS"

CodePhrase(negated, status) ==
    IF status = "F"
    THEN (IF negated THEN "unintentionally/undesirably succeeded" ELSE "FAILED")
    ELSE IF status = "S"
         THEN (IF negated THEN "failed as intended" ELSE "succeeded")
         ELSE "had ERRORS"

(* C17 as claimed: the status phrase of every detail entry written is the  *)
(* one of the table: negated and effective Failure 'failed as intended',   *)
(* negated and effective Success 'unintentionally/undesirably succeeded',  *)
(* plain Failure 'FAILED', plain Success 'succeeded', else 'had ERRORS'.   *)
C17_PhraseByClaimedTable ==
    \A j \in 1..Len(reports) :
        reports[j].status_message
            = ClaimedPhrase(test_cases[reports[j].name].negated,
                            test_case_details_to_display[j].status)

(* C17 as amended: the status phrase of every detail entry written is:     *)
(* negated and effective Failure 'unintentionally/undesirably succeeded',  *)
(* negated and effective Success 'failed as intended', plain Failure       *)
(* 'FAILED', plain Success 'succeeded', else 'had ERRORS'.                 *)
C17_PhraseByEffectiveStatus ==
    \A j \in 1..Len(reports) :
        /\ reports[j].name = test_case_details_to_display[j].name
        /\ reports[j].status_message
               = CodePhrase(test_cases[reports[j].name].negated,
                            test_case_details_to_display[j].status)

\* Both phrases of a negated case kind and one of a plain case are written:
\* a negated case that failed as intended next to a plain failure.
C17_Witness ==
    /\ Len(reports) = 2
    /\ \E i, j \in 1..Len(reports) :
           /\ test_cases[reports[i].name].negated
           /\ reports[i].status = "S"
           /\ reports[i].status_message = "failed as intended"
           /\ ~test_cases[reports[j].name].negated
           /\ reports[j].status = "F"
           /\ reports[j].status_message = "FAILED"

\* The position among the recorded details of the i-th case run.
DetailPosition(i) == Len(SelectSeq(SubSeq(outcomes, 1, i), IsNotSuccessOrVerbose))

(* C18: a negated case whose artifact classifies as Success has the        *)
(* effective status Failure and the summary symbol 'F', is recorded for    *)
(* the detail report, and its detail entry, once written, has the phrase   *)
(* 'unintentionally/undesirably succeeded'.                                *)
C18_NegatedSuccessIsAFailure ==
    \A i \in 1..Len(outcomes) :
        (outcomes[i].negated /\ outcomes[i].result = "S") =>
            LET k == DetailPosition(i)
            IN  /\ outcomes[i].status = "F"
                /\ test_results[i] = "F"
                /\ k \in 1..Len(test_case_details_to_display)
                /\ test_case_details_to_display[k].name = outcomes[i].name
                /\ test_case_details_to_display[k].status = "F"
                /\ k <= Len(reports) =>
                       /\ reports[k].name = outcomes[i].name
                       /\ reports[k].status_message
                              = "unintentionally/undesirably succeeded"

\* The detail entry of a negated case with a proof found has been written,
\* at the lowest verbosity.
C18_Witness ==
    /\ verbosity = 0
    /\ \E i \in 1..Len(outcomes) :
           /\ outcomes[i].negated
           /\ outcomes[i].result = "S"
           /\ DetailPosition(i) <= Len(reports)
           /\ reports[DetailPosition(i)].status_message
                  = "unintentionally/undesirably succeeded"

(* C19: at most one prover is running at any time, and one is running or   *)
(* its artifact is being classified only while the cases before it, and    *)
(* no other, have their result and their summary symbol.                   *)
C19_OneProverAtATime ==
    /\ Len(prover) <= 1
    /\ prover # <<>> => pc = "running"
    /\ Len(test_results) = Len(outcomes)
    /\ pc \in {"loop", "running", "scan"} => Len(SummaryWritten) = Len(outcomes)
    /\ Len(invocations) \in {Len(outcomes), Len(outcomes) + 1}
    /\ Len(invocations) = Len(outcomes) + 1 =>
           /\ pc \in {"running", "scan"}
           /\ next_test = Len(invocations)
    /\ pc \in {"running", "scan"} => Len(invocations) = Len(outcomes) + 1

\* The prover of the second case runs, the first case has its symbol.
C19_Witness ==
    /\ pc = "running"
    /\ Len(prover) = 1
    /\ Len(invocations) = 2
    /\ Len(outcomes) = 1
    /\ Len(SummaryWritten) = 1

(* C20: while the results path is something that is no directory, or is    *)
(* absent (creatable or not), no prover has been launched, no result file  *)
(* opened and no summary symbol written; once run_test_cases has looked    *)
(* at such a path that is no directory or cannot be created, the run is    *)
(* in the fatal state and nothing was created.                             *)
C20_ResultsPathCheckedFirst ==
    /\ results_path # "dir" =>
           /\ invocations = <<>>
           /\ files = <<>>
           /\ SummaryWritten = <<>>
           /\ ~dir_created
    /\ results_path \in {"file", "denied"} => pc \in {"cases", "fatal"}
    /\ results_path = "absent" => pc \in {"split", "suite", "cases", "fatal"}
    /\ (results_path = "absent" /\ pc = "fatal") =>
           \E i \in 1..Len(stdout) :
               stdout[i] \in {"ERROR: test with duplicate name",
                              "ERROR: given test name not found",
                              "ERROR: no valid test cases found"}

\* A file at the results path, found with two valid cases selected.
C20_Witness ==
    /\ pc = "fatal"
    /\ results_path = "file"
    /\ Len(tests_to_run) = 2
    /\ ~UnknownNameRequested

\* A results directory that was created, and a prover launched after it.
C20_WitnessCreated ==
    /\ dir_created
    /\ results_path = "dir"
    /\ invocations # <<>>

-----------------------------------------------------------------------------
(* The input of the prover.                                                *)

(* C21: the input of every prover launched is the background of the whole  *)
(* document, the background lines after the test section included,         *)
(* followed at once by the body of its own case and by nothing else; the   *)
(* background is that of the document from the end of the split on.        *)
C21_InputIsBackgroundThenBody ==
    /\ pc # "split" => non_test_matter = BackgroundOf(doc)
    /\ \A i \in 1..Len(invocations) :
           /\ invocations[i].name \in DOMAIN test_cases
           /\ invocations[i].input
                  = BackgroundOf(doc) \o test_cases[invocations[i].name].text

\* Both cases of the whole of SuiteDocument were run; its last line is a
\* background line after the end marker, and the bodies differ.
C21_Witness ==
    /\ pc = "done"
    /\ doc = SuiteDocument
    /\ InBackground(doc, Len(doc))
    /\ Len(invocations) = 2
    /\ invocations[1].name # invocations[2].name
    /\ invocations[1].input # invocations[2].input
    /\ \A i \in 1..2 :
           SubSeq(invocations[i].input, 1, Len(non_test_matter)) = non_test_matter

-----------------------------------------------------------------------------
(* Default names.                                                          *)

\* The test-case marker at position i of d has no name, or a blank one.
IsUnnamedMarker(d, i) == d[i].mark = "case" /\ strip(d[i].rest) = ""

\* The number of test-case markers of d up to position i.
MarkerNumber(d, i) == Cardinality({j \in 1..i : d[j].mark = "case"})

\* The default names, written out.
TestDash(k) ==
    IF k = 1 THEN "Test-1" ELSE IF k = 2 THEN "Test-2" ELSE IF k = 3 THEN "Test-3"
    ELSE IF k = 4 THEN "Test-4" ELSE IF k = 5 THEN "Test-5" ELSE "Test-6"

(* C23: a test-case marker with no name or a blank name that is the k-th   *)
(* test-case marker read, named and unnamed counted alike, adds the name   *)
(* 'Test-k' to the name list; when an earlier case has that name, the run  *)
(* is in the duplicate-name fatal state and the marker has no case.        *)
C23_UnnamedMarkerIsTestK ==
    \A i \in 1..Len(doc) :
        IsUnnamedMarker(doc, i) =>
            LET k == MarkerNumber(doc, i)
            IN  /\ k <= Len(test_case_names)
                /\ test_case_names[k] = TestDash(k)
                /\ (\E j \in 1..(k - 1) : test_case_names[j] = TestDash(k)) =>
                       /\ pc = "fatal"
                       /\ exit_code = 1
                       /\ i = Len(doc)
                       /\ \E n \in 1..Len(stdout) :
                              stdout[n] = "ERROR: test with duplicate name"
                       /\ test_cases[TestDash(k)].index < k
                /\ (\A j \in 1..(k - 1) : test_case_names[j] # TestDash(k)) =>
                       /\ TestDash(k) \in DOMAIN test_cases
                       /\ test_cases[TestDash(k)].index = k

\* A case named 'Test-2', then an unnamed marker that is the second one.
C23_Witness ==
    /\ pc = "fatal"
    /\ Len(doc) = 2
    /\ doc[1].mark = "case" /\ strip(doc[1].rest) = "Test-2"
    /\ IsUnnamedMarker(doc, 2)
    /\ test_case_names = <<"Test-2", "Test-2">>

\* An unnamed marker after a named one becomes the case 'Test-2'.
C23_WitnessSecondOfTwo ==
    /\ test_case_names = <<"a", "Test-2">>
    /\ IsUnnamedMarker(doc, Len(doc))
    /\ test_cases["Test-2"].index = 2

-----------------------------------------------------------------------------
(* Likely failures.                                                        *)

(* C30: a case whose result is '?' has the status '?' and the summary      *)
(* symbol '?', negated or not, is recorded for the detail report at every  *)
(* verbosity, and its detail entry, once written, has the phrase           *)
(* 'had ERRORS', the phrase of an 'E' entry.                               *)
C30_LikelyFailureIsReportedAsError ==
    /\ \A i \in 1..Len(outcomes) :
           outcomes[i].result = "?" =>
               LET k == DetailPosition(i)
               IN  /\ outcomes[i].status = "?"
                   /\ test_results[i] = "?"
                   /\ k \in 1..Len(test_case_details_to_display)
                   /\ test_case_details_to_display[k].name = outcomes[i].name
                   /\ test_case_details_to_display[k].status = "?"
    /\ \A j \in 1..Len(reports) :
           reports[j].status \in {"?", "E"} => reports[j].status_message = "had ERRORS"

\* A negated and a plain case, both with a likely failure, both written.
C30_Witness ==
    /\ verbosity = 0
    /\ Len(reports) = 2
    /\ \E i, j \in 1..2 :
           /\ outcomes[i].negated /\ outcomes[i].result = "?"
           /\ ~outcomes[j].negated /\ outcomes[j].result = "?"
    /\ \A j \in 1..2 :
           reports[j].status = "?" /\ reports[j].status_message = "had ERRORS"

-----------------------------------------------------------------------------
(* run_test_cases on its own.                                              *)

\* The names of the selection that are no key of the case table.
NamesNotInTable == Range(tests_to_run) \ DOMAIN test_cases

(* C27: for a name of the selection that is no key of the case table, no   *)
(* prover has been launched and no result file has been opened, and the    *)
(* run is in the fatal state once the loop has come to that name.          *)
C27_UnknownKeyStopsAtLookup ==
    \A i \in 1..Len(tests_to_run) :
        tests_to_run[i] \notin DOMAIN test_cases =>
            /\ \A n \in 1..Len(invocations) : invocations[n].name # tests_to_run[i]
            /\ ResultFilename(tests_to_run[i]) \notin DOMAIN files
            /\ next_test <= i
            /\ (next_test = i /\ pc \notin {"cases", "loop"}) => pc = "fatal"

-----------------------------------------------------------------------------
(* The artifact a detail entry shows.                                      *)

\* The outcomes that were recorded, in order: the j-th is that of the j-th
\* detail entry.
RecordedOutcomes == SelectSeq(outcomes, IsNotSuccessOrVerbose)

(* C28: what every detail entry written shows of the result file is what   *)
(* the entry's status and the verbosity select from the artifact of the    *)
(* prover run the status was read from.                                    *)
C28_DetailShowsItsOwnArtifact ==
    \A j \in 1..Len(reports) :
        /\ j <= Len(RecordedOutcomes)
        /\ reports[j].name = RecordedOutcomes[j].name
        /\ reports[j].status = RecordedOutcomes[j].status
        /\ reports[j].results
               = DetailResults(reports[j].status, verbosity, RecordedOutcomes[j].artifact)

-----------------------------------------------------------------------------
(* Completion.                                                             *)

\* run_test_cases has returned, every selected case run and reported.
CompletedAndReported ==
    /\ pc = "done"
    /\ exit_code = 0
    /\ Len(invocations) = Len(tests_to_run)
    /\ Len(outcomes) = Len(tests_to_run)
    /\ Len(test_results) = Len(tests_to_run)
    /\ Len(reports) = Len(RecordedOutcomes)

(* C22: once the loop over the selected cases has begun (the requested     *)
(* names are known and the results directory is there), the run comes to   *)
(* its normal completion with every selected case run and reported, or a   *)
(* prover could not be launched; no result of a case stops it.             *)
C22_RunCompletes == (pc = "loop") ~> (CompletedAndReported \/ LaunchFailed)

\* A completed run whose first case had the result 'E' and whose second
\* case had the result '?'.
C22_Witness ==
    /\ CompletedAndReported
    /\ Len(outcomes) = 2
    /\ outcomes[1].result = "E"
    /\ outcomes[2].result = "?"

-----------------------------------------------------------------------------
(* naive_consent_theory.py: what the calls made so far say.                *)

\* The person object was asked by the name for its consent to the action;
\* the person object did the action to the name.
Asked(self, personAsking, action) ==
    \E i \in 1..Len(calls) :
        calls[i] = Call(self, "consent_requested_by", personAsking, action)

Done(self, personAffected, action) ==
    \E i \in 1..Len(calls) : calls[i] = Call(self, "do", personAffected, action)

\* The positions in seq of the answers of the person object to the name
\* about the action, and the method of the last of them.
Responses(seq, self, personAsking, action) ==
    {i \in 1..Len(seq) :
        /\ seq[i].self = self
        /\ seq[i].person = personAsking
        /\ seq[i].action = action
        /\ seq[i].method \in {"give_consent", "does_not_consent", "revoke_consent"}}

LastResponse(seq, self, personAsking, action) ==
    LET answers == Responses(seq, self, personAsking, action)
    IN  IF answers = {} THEN "none"
        ELSE seq[CHOOSE i \in answers : \A j \in answers : j <= i].method

(* C24: after any calls, is_ethical_action(p, p, action) is True for every *)
(* Person object p and every action.                                       *)
C24_OneselfIsAlwaysEthical ==
    \A p \in PersonObjects, action \in ActionNames :
        is_ethical_action(people[p], people[p], action)

\* alex does not consent to alex's own request, and does the action.
C24_Witness ==
    /\ calls = <<Call(1, "does_not_consent", "Alex", "action"),
                 Call(1, "do", "Alex", "action")>>
    /\ ~consents(people[1], "Alex", "action")
    /\ did(people[1], "Alex", "action")

(* C25: for two distinct Person objects A and B, is_ethical_action(A, B,   *)
(* action) is True exactly when B was asked for its consent by A's name    *)
(* and B's last answer to A is a given consent or A has not done the       *)
(* action to B's name.                                                     *)
C25_EthicalIffAskedAndConsentOrNotDone ==
    \A A, B \in PersonObjects, action \in ActionNames :
        A # B =>
            (is_ethical_action(people[A], people[B], action)
                <=> /\ Asked(B, people[A].name, action)
                    /\ \/ LastResponse(calls, B, people[A].name, action) = "give_consent"
                       \/ ~Done(A, people[B].name, action))

\* bo gave consent to alex without having been asked, and alex acted.
C25_Witness ==
    /\ calls = <<Call(2, "give_consent", "Alex", "action"), Call(1, "do", "Bo", "action")>>
    /\ ~is_ethical_action(people[1], people[2], "action")

\* bo was asked by alex and refused, and alex acted.
C25_WitnessRefused ==
    /\ calls = <<Call(2, "consent_requested_by", "Alex", "action"),
                 Call(2, "does_not_consent", "Alex", "action"),
                 Call(1, "do", "Bo", "action")>>
    /\ ~is_ethical_action(people[1], people[2], "action")

(* C26: consents(asker, action) of a Person object is True exactly when    *)
(* the last of its give_consent, does_not_consent and revoke_consent calls *)
(* for that asker and action is a give_consent; it is False when there is  *)
(* none, and no other call has a part in it.                               *)
C26_ConsentIsTheLastAnswer ==
    \A self \in PersonObjects, personAsking \in PersonNames, action \in ActionNames :
        consents(people[self], personAsking, action)
            <=> LastResponse(calls, self, personAsking, action) = "give_consent"

\* bo consents to alex, then refuses bo and is asked by alex: bo still
\* consents to alex.
C26_Witness ==
    /\ calls = <<Call(2, "give_consent", "Alex", "action"),
                 Call(2, "does_not_consent", "Bo", "action"),
                 Call(2, "consent_requested_by", "Alex", "action")>>
    /\ consents(people[2], "Alex", "action")
    /\ ~consents(people[2], "Bo", "action")

\* bo consents to alex, then revokes.
C26_WitnessRevoked ==
    /\ calls = <<Call(2, "give_consent", "Alex", "action"),
                 Call(2, "revoke_consent", "Alex", "action")>>
    /\ ~consents(people[2], "Alex", "action")

\* The objects after the calls of seq, made from InitialPeople on.
RECURSIVE Replay(_)
Replay(seq) ==
    IF seq = <<>> THEN InitialPeople
    ELSE Apply(Replay(SubSeq(seq, 1, Len(seq) - 1)), seq[Len(seq)])

\* The elements of a finite set, one after the other, in a fixed order.
RECURSIVE InSomeOrder(_)
InSomeOrder(S) ==
    IF S = {} THEN <<>>
    ELSE LET x == CHOOSE y \in S : TRUE IN <<x>> \o InSomeOrder(S \ {x})

\* Every call there can be of the two recording methods, and of the three
\* answering methods.
RecordingCalls ==
    InSomeOrder({Call(self, method, person, action) :
                    self \in PersonObjects, method \in {"consent_requested_by", "do"},
                    person \in PersonNames, action \in ActionNames})

AnsweringCalls ==
    InSomeOrder({Call(self, method, person, action) :
                    self \in PersonObjects,
                    method \in {"give_consent", "does_not_consent", "revoke_consent"},
                    person \in PersonNames, action \in ActionNames})

\* What seq holds whatever its order: the consent_requested_by and do calls
\* that occur in it, each once, and then the last answer of each pair.
OrderFree(seq) ==
    LET Occurs(call) == \E i \in 1..Len(seq) : seq[i] = call
        IsLast(call) ==
            LastResponse(seq, call.self, call.person, call.action) = call.method
    IN  SelectSeq(RecordingCalls, Occurs) \o SelectSeq(AnsweringCalls, IsLast)

(* C29: the verdict of is_ethical_action for every two persons and every   *)
(* action is the verdict after the calls of OrderFree, which are the same  *)
(* for any two sequences with the same consent_requested_by and do calls   *)
(* and the same last answer of every pair, whatever their order.           *)
C29_VerdictIsOrderIndependent ==
    LET other == Replay(OrderFree(calls))
    IN  \A A, B \in PersonObjects, action \in ActionNames :
            is_ethical_action(other[A], other[B], action)
                <=> is_ethical_action(people[A], people[B], action)

\* alex acts first, then asks bo, then bo consents: judged ethical.
C29_Witness ==
    /\ calls = <<Call(1, "do", "Bo", "action"),
                 Call(2, "consent_requested_by", "Alex", "action"),
                 Call(2, "give_consent", "Alex", "action")>>
    /\ is_ethical_action(people[1], people[2], "action")

====
